---- MODULE Spec2Model ----
(***************************************************************************)
(* Model of sqlez (interface-based API): DB.Attach / DBObjectAddOn.Init,   *)
(* validateMetadata, the MySQL statement generators, populate, and the     *)
(* per-record data operations.                                             *)
(*                                                                         *)
(* Conventions.  Go slices and struct fields are 0-based; the model keeps  *)
(* the 0-based numbers the code stores (pkey, field, ...) and reads a      *)
(* sequence at index i with At(s, i).  A struct tag is modelled after      *)
(* strings.Split(tag, ","): a sequence whose first element is <<label>>    *)
(* and whose other elements are the tokens after strings.Split(v, ":").    *)
(* SQL text is a sequence of string tokens, "?" being a placeholder.       *)
(* A field value is a natural number, 0 being the zero value of its kind.  *)
(***************************************************************************)
EXTENDS Integers, Sequences, FiniteSets, TLC

\* ------------------------------------------------------------------ bounds
\* records in the runs about registration (SpecAttach, SpecConc)
MaxInst == 2
\* records in the runs about the data operations
MaxSolo == 1
\* last reading of the clock
MaxTime == 2
\* rows in a query result
MaxRows == 2

\* ------------------------------------------------------- program constants
GoString == 0
GoInt == 1
GoFloat == 2
GoBool == 3
GoTime == 4
GoStruct == 5

\* ------------------------------------------------------------ small helpers
At(s, i) == s[i + 1]

InRange(s, i) == i >= 0 /\ i < Len(s)

SetAt(s, i, v) == [s EXCEPT ![i + 1] = v]

RECURSIVE Join(_, _)
Join(parts, sep) ==
    IF Len(parts) = 0 THEN <<>>
    ELSE IF Len(parts) = 1 THEN <<parts[1]>>
    ELSE <<parts[1], sep>> \o Join(Tail(parts), sep)

RECURSIVE Repeat(_, _)
Repeat(s, n) == IF n = 0 THEN <<>> ELSE s \o Repeat(s, n - 1)

\* ------------------------------------------------- record types (the input)
\* A field of a Go struct type: its kind, the element/struct type name where
\* the kind is "struct" or "ptr", and its db tag.
Fld(kind, elem, tag) == [kind |-> kind, elem |-> elem, tag |-> tag]

TimeType == "time.Time"

AddOnField == Fld("struct", "sqlez.DBObjectAddOn", <<>>)

TypeFields ==
    [ User |->
        << Fld("int", "", << <<"id">>, <<"primary">>, <<"table", "users">> >>),
           Fld("string", "", << <<"name">> >>),
           Fld("struct", TimeType, << <<"created">>, <<"created">> >>),
           Fld("struct", TimeType, << <<"updated">>, <<"updated">> >>),
           AddOnField >>,
      Stamped |->
        << Fld("int", "", << <<"id">>, <<"primary">>, <<"table", "stamped">> >>),
           Fld("int", "", << <<"alt">>, <<"primary">> >>),
           Fld("struct", TimeType, << <<"made">>, <<"created">> >>),
           Fld("struct", TimeType, << <<"seen">>, <<"created">>, <<"updated">> >>),
           Fld("struct", TimeType, << <<"changed">>, <<"updated">> >>),
           AddOnField >>,
      Test |->
        << Fld("int", "", << <<"id">>, <<"primary">>, <<"table", "tests">> >>),
           Fld("string", "", << <<"name">> >>),
           AddOnField >>,
      Post |->
        << Fld("int", "", << <<"id">>, <<"primary">>, <<"table", "posts">> >>),
           Fld("ptr", "User", << <<"author">>, <<"foreign">> >>),
           AddOnField >>,
      NoTable |->
        << Fld("int", "", << <<"id">>, <<"primary">> >>),
           Fld("string", "", << <<"name">> >>),
           AddOnField >>,
      NoKey |->
        << Fld("string", "", << <<"name">>, <<"table", "nokeys">> >>),
           AddOnField >>,
      BadCreated |->
        << Fld("int", "", << <<"id">>, <<"primary">>, <<"table", "bads">> >>),
           Fld("string", "", << <<"created">>, <<"created">> >>),
           AddOnField >>,
      BadForeign |->
        << Fld("int", "", << <<"id">>, <<"primary">>, <<"table", "badf">> >>),
           Fld("int", "", << <<"owner">>, <<"foreign">> >>),
           AddOnField >>,
      BadKind |->
        << Fld("int", "", << <<"id">>, <<"primary">>, <<"table", "badk">> >>),
           Fld("slice", "", << <<"tags">>, <<"unique">> >>),
           AddOnField >>,
      Typed |->
        << Fld("int", "", << <<"id">>, <<"primary">>, <<"type", "BIGINT">>, <<"table", "typed">> >>),
           Fld("string", "", << <<"note">>, <<"type", "TEXT">> >>),
           Fld("float64", "", << <<"score">>, <<"unique">> >>),
           Fld("bool", "", << <<"done">>, <<"default", "0">> >>),
           AddOnField >>,
      Nested |->
        << Fld("int", "", << <<"id">>, <<"primary">>, <<"table", "nested">> >>),
           Fld("struct", "Profile", << <<"profile">>, <<"unique">> >>),
           Fld("struct", "Profile", << <<"extra">>, <<"json">> >>),
           Fld("string", "", << <<"name">>, <<"unique">> >>),
           AddOnField >>,
      KeyOnly |->
        << Fld("int", "", << <<"id">>, <<"primary">>, <<"table", "keys">> >>),
           AddOnField >>,
      Shifted |->
        << AddOnField,
           Fld("int", "", << <<"id">>, <<"primary">>, <<"table", "notes">> >>),
           Fld("struct", TimeType, << <<"seen">> >>),
           Fld("struct", TimeType, << <<"created">>, <<"created">> >>) >> ]

TypeNames == DOMAIN TypeFields

\* the fields of the struct types that record types nest
StructFields ==
    [ Profile |->
        << Fld("string", "", << <<"bio">>, <<"unique">> >>),
           Fld("int", "", << <<"age">>, <<"unique">> >>) >> ]

\* the record types of the runs that look at the generated statements
StmtTypes == {"User", "KeyOnly", "Shifted", "Nested"}

\* the record types of the runs that exercise the data operations
OpTypes == {"User", "NoTable", "NoKey"}

\* the element types of the slices of the runs that exercise bulk retrieval
ManyTypes == {"User", "Nested"}

\* the record types of the runs that exercise the write statements
SaveTypes == {"User", "Shifted"}

\* reflect.Type identities used as keys of DB.objects
ValueType == "reflect.Value"

\* typ := reflect.TypeOf(val), val being a reflect.Value
CacheKey(t) == ValueType

\* fkType := val.Field(i).Type(), the type of a pointer field
PtrTypeOf(f) == "*" \o f.elem

IsTime(f) == f.kind = "struct" /\ f.elem = TimeType

\* ----------------------------------------------------------- MySQLDriver
GetDataType(f) ==
    CASE f.kind = "string" -> "VARCHAR(255)"
      [] f.kind \in {"int", "int8", "int16", "int32", "int64", "bool"} -> "INT"
      [] f.kind \in {"float32", "float64"} -> "FLOAT"
      [] IsTime(f) -> "DATETIME"
      [] OTHER -> "TEXT"

\* ------------------------------------------------------- schema structures
NewMD ==
    [ table |-> "", pkey |-> -1, fkey |-> -1, created |-> -1, updated |-> -1,
      refreshOrderBy |-> "", cols |-> <<>>, validated |-> FALSE ]

NewCol(label) ==
    [ label |-> label, field |-> 0, sqlType |-> "", goType |-> GoString,
      primary |-> FALSE, foreignTable |-> "", foreignKey |-> "",
      unique |-> FALSE, autoinc |-> FALSE, created |-> FALSE,
      updated |-> FALSE, def |-> "", json |-> FALSE, colProp |-> "" ]

ErrNone == ""
ErrForeignNotPtr == "foreign key must be a pointer to a struct"
ErrForeignUndefined == "foreign table not yet defined"
ErrCreatedNotTime == "created field must be a time struct"
ErrUpdatedNotTime == "updated field must be a time struct"
ErrUnsupported == "unsupported type"
ErrPanic == "panic"

BuildErrors ==
    {ErrForeignNotPtr, ErrForeignUndefined, ErrCreatedNotTime,
     ErrUpdatedNotTime, ErrUnsupported}

\* The cache lookup db.objects[k]
Has(objs, k) == k \in DOMAIN objs

Store(objs, k, md) ==
    [x \in (DOMAIN objs) \cup {k} |-> IF x = k THEN md ELSE objs[x]]

\* Init, the switch on one token v of split[1:] (key:value or bare flag)
ApplyToken(objs, flds, i, st, v) ==
    LET md == st.md
        c == st.c
        f == At(flds, i)
    IN  IF Len(v) > 1
        THEN CASE v[1] = "default" -> [st EXCEPT !.c.def = v[2]]
               [] v[1] = "table" ->
                    IF md.table = "" THEN [st EXCEPT !.md.table = v[2]] ELSE st
               [] v[1] = "type" -> [st EXCEPT !.c.sqlType = v[2]]
               [] v[1] = "refresh" -> [st EXCEPT !.md.refreshOrderBy = v[2]]
               [] OTHER -> st
        ELSE CASE v[1] = "primary" /\ md.pkey < 0 ->
                    [st EXCEPT !.c.primary = TRUE, !.md.pkey = i]
               [] v[1] = "foreign" /\ md.fkey < 0 ->
                    IF f.kind # "ptr"
                    THEN [st EXCEPT !.err = ErrForeignNotPtr]
                    ELSE IF ~Has(objs, PtrTypeOf(f))
                    THEN [st EXCEPT !.err = ErrForeignUndefined]
                    ELSE LET t == objs[PtrTypeOf(f)]
                         IN  IF ~InRange(t.cols, t.pkey)
                             THEN [st EXCEPT !.err = ErrPanic]
                             ELSE [st EXCEPT !.c.foreignTable = t.table,
                                             !.c.foreignKey = At(t.cols, t.pkey).label,
                                             !.md.fkey = i]
               [] v[1] = "unique" -> [st EXCEPT !.c.unique = TRUE]
               [] v[1] = "json" -> [st EXCEPT !.c.json = TRUE]
               [] v[1] = "autoinc" -> [st EXCEPT !.c.autoinc = TRUE]
               [] v[1] = "created" ->
                    [st EXCEPT !.c.created = TRUE, !.md.created = i]
               [] v[1] = "updated" ->
                    [st EXCEPT !.c.updated = TRUE, !.md.updated = i]
               [] OTHER -> [st EXCEPT !.c.colProp = v[1]]

\* Init, the "find go type" switch
GoTypeOf(f) ==
    CASE f.kind = "struct" -> IF IsTime(f) THEN GoTime ELSE GoStruct
      [] f.kind \in {"float32", "float64"} -> GoFloat
      [] f.kind = "int" -> GoInt
      [] f.kind = "string" -> GoString
      [] f.kind = "bool" -> GoBool
      [] OTHER -> -1

\* Init, the rest of the body of the loop over split[1:], after the switch
AfterToken(flds, i, st) ==
    LET f == At(flds, i)
        s1 == IF st.c.sqlType = ""
              THEN [st EXCEPT !.c.sqlType = GetDataType(f)] ELSE st
    IN  IF s1.err # ErrNone THEN s1
        ELSE IF s1.md.created >= 0 /\ ~IsTime(At(flds, s1.md.created))
        THEN [s1 EXCEPT !.err = ErrCreatedNotTime]
        ELSE IF s1.md.updated >= 0 /\ ~IsTime(At(flds, s1.md.updated))
        THEN [s1 EXCEPT !.err = ErrUpdatedNotTime]
        ELSE IF GoTypeOf(f) < 0
        THEN [s1 EXCEPT !.err = ErrUnsupported]
        ELSE [s1 EXCEPT !.c.goType = GoTypeOf(f)]

\* Init, for _, v := range split[1:]
RECURSIVE ScanTokens(_, _, _, _, _, _)
ScanTokens(objs, flds, i, st, toks, j) ==
    IF st.err # ErrNone \/ j > Len(toks) THEN st
    ELSE LET s1 == ApplyToken(objs, flds, i, st, toks[j])
         IN  ScanTokens(objs, flds, i,
                        IF s1.err # ErrNone THEN s1 ELSE AfterToken(flds, i, s1),
                        toks, j + 1)

\* an annotation marks its field json
MarkedJson(tag) == \E j \in 2..Len(tag) : tag[j] = <<"json">>

\* variant of Init's loop over the fields that descends into a struct-typed
\* field not marked json and adds the columns of its fields
RECURSIVE ScanFields_Descend(_, _, _, _)
ScanFields_Descend(objs, flds, md, i) ==
    IF i >= Len(flds) THEN [md |-> md, err |-> ErrNone]
    ELSE LET f == At(flds, i)
             tag == f.tag
         IN  IF f.kind = "struct" /\ f.elem \in DOMAIN StructFields /\ ~MarkedJson(tag)
             THEN LET sub == ScanFields_Descend(objs, StructFields[f.elem], md, 0)
                  IN  IF sub.err # ErrNone THEN sub
                      ELSE ScanFields_Descend(objs, flds, sub.md, i + 1)
             ELSE IF tag = <<>> THEN ScanFields_Descend(objs, flds, md, i + 1)
             ELSE LET st == ScanTokens(objs, flds, i,
                                       [md |-> md, c |-> NewCol(tag[1][1]), err |-> ErrNone],
                                       Tail(tag), 1)
                  IN  IF st.err # ErrNone THEN [md |-> st.md, err |-> st.err]
                      ELSE ScanFields_Descend(objs, flds,
                                      [st.md EXCEPT !.cols = Append(@, [st.c EXCEPT !.field = i])],
                                      i + 1)

\* Init, for i := 0; i < val.NumField(); i++
RECURSIVE ScanFields(_, _, _, _)
ScanFields(objs, flds, md, i) ==
    IF i >= Len(flds) THEN [md |-> md, err |-> ErrNone]
    ELSE LET tag == At(flds, i).tag
         IN  IF tag = <<>> THEN ScanFields(objs, flds, md, i + 1)
             ELSE LET st == ScanTokens(objs, flds, i,
                                       [md |-> md, c |-> NewCol(tag[1][1]), err |-> ErrNone],
                                       Tail(tag), 1)
                  IN  IF st.err # ErrNone THEN [md |-> st.md, err |-> st.err]
                      ELSE ScanFields(objs, flds,
                                      [st.md EXCEPT !.cols = Append(@, [st.c EXCEPT !.field = i])],
                                      i + 1)

\* The schema the builder derives from a record type's annotations
BuildSchema(objs, t) == ScanFields(objs, TypeFields[t], NewMD, 0)

\* ------------------------------------------------ MySQLDriver: statements
RECURSIVE Flatten(_, _)
Flatten(parts, sep) ==
    IF Len(parts) = 0 THEN <<>>
    ELSE IF Len(parts) = 1 THEN parts[1]
    ELSE parts[1] \o sep \o Flatten(Tail(parts), sep)

\* CreateTable, one column clause "%s %s%s%s%s%s"
ColumnClause(col) ==
    <<col.label, col.sqlType>>
    \o (IF col.primary THEN <<"NOT NULL PRIMARY KEY">> ELSE <<>>)
    \o (IF col.autoinc \/ col.primary THEN <<"AUTOINCREMENT">> ELSE <<>>)
    \o (IF col.def # "" THEN <<"DEFAULT", col.def>> ELSE <<>>)
    \o (IF col.colProp # "" THEN <<col.colProp>> ELSE <<>>)

ForeignClause(fk) ==
    <<"FOREIGN KEY", "(", fk.label, ")", "REFERENCES", fk.foreignTable, "(", fk.foreignKey, ")">>

\* MySQLDriver.CreateTable; data.cols[data.fkey] panics when out of range
CreateTableSQL(md) ==
    LET clauses == [k \in 1..Len(md.cols) |-> ColumnClause(md.cols[k])]
    IN  IF md.fkey >= 0 /\ ~InRange(md.cols, md.fkey)
        THEN [query |-> <<>>, panic |-> TRUE]
        ELSE [query |-> <<"CREATE TABLE", md.table, "(">>
                        \o Flatten(IF md.fkey >= 0
                                   THEN Append(clauses, ForeignClause(At(md.cols, md.fkey)))
                                   ELSE clauses, <<",">>)
                        \o <<")">>,
              panic |-> FALSE]

\* A bound parameter or a raw driver value: Go dynamic kind k, payload v;
\* txt says how a string or []byte payload reads ("num": decimal digits).
Val(k, v) == [k |-> k, v |-> v, txt |-> ""]

Text(k, v, txt) == [k |-> k, v |-> v, txt |-> txt]

\* val.Field(i).Interface() for a field of the record type
Interface(f, v) == Val(IF f.kind = "struct" THEN f.elem ELSE f.kind, v)

\* json.Marshal of a field value, as string(j)
JsonText(f) ==
    CASE f.kind \in {"int", "float32", "float64"} -> "num"
      [] f.kind = "string" -> "str"
      [] f.kind = "bool" -> "bool"
      [] OTHER -> "obj"

\* MySQLDriver.InsertIgnore, the loop over data.meta.cols: i is the 0-based
\* column index, st = [fields, columns, vals, panic].
RECURSIVE InsertLoop(_, _, _, _, _)
InsertLoop(flds, cols, now, i, st) ==
    IF st.panic \/ i >= Len(cols) THEN st
    ELSE LET col == At(cols, i)
         IN  IF col.primary THEN InsertLoop(flds, cols, now, i + 1, st)
             ELSE IF (col.created \/ col.updated) /\ ~InRange(flds, i)
             THEN [st EXCEPT !.panic = TRUE]
             ELSE IF (col.created \/ col.updated) /\ ~IsTime(At(flds, i))
             THEN [st EXCEPT !.panic = TRUE]
             ELSE LET s1 == IF col.created \/ col.updated
                            THEN [st EXCEPT !.fields = SetAt(@, i, now)] ELSE st
                      s2 == [s1 EXCEPT !.columns = Append(@, col.label)]
                  IN  IF ~InRange(flds, i) THEN [s2 EXCEPT !.panic = TRUE]
                      ELSE IF col.json
                      THEN InsertLoop(flds, cols, now, i + 1,
                             [s2 EXCEPT !.vals = Append(@, Text("string", At(s2.fields, i), JsonText(At(flds, i))))])
                      ELSE IF col.goType = GoTime
                      THEN IF ~IsTime(At(flds, i)) THEN [s2 EXCEPT !.panic = TRUE]
                           ELSE InsertLoop(flds, cols, now, i + 1,
                                  [s2 EXCEPT !.vals = Append(@, Val("int64", At(s2.fields, i)))])
                      ELSE InsertLoop(flds, cols, now, i + 1,
                             [s2 EXCEPT !.vals = Append(@, Interface(At(flds, i), At(s2.fields, i)))])

\* MySQLDriver.InsertIgnore; strings.Repeat panics on a negative count
InsertIgnore(flds, fields, md, ignore, now) ==
    LET st == InsertLoop(flds, md.cols, now, 0,
                         [fields |-> fields, columns |-> <<>>, vals |-> <<>>, panic |-> FALSE])
    IN  IF st.panic \/ Len(st.columns) = 0
        THEN [query |-> <<>>, vals |-> st.vals, fields |-> st.fields, panic |-> TRUE]
        ELSE [query |-> <<"INSERT">> \o (IF ignore THEN <<"OR IGNORE">> ELSE <<>>)
                        \o <<"INTO", md.table, "(">> \o Join(st.columns, ",")
                        \o <<")", "VALUES", "(">>
                        \o Repeat(<<"?", ",">>, Len(st.columns) - 1) \o <<"?">> \o <<")">>,
              vals |-> st.vals, fields |-> st.fields, panic |-> FALSE]

\* MySQLDriver.Update, the loop over data.meta.cols;
\* st = [fields, columns, vals, where, whereval, panic]
RECURSIVE UpdateLoop(_, _, _, _, _)
UpdateLoop(flds, cols, now, i, st) ==
    IF st.panic \/ i >= Len(cols) THEN st
    ELSE LET col == At(cols, i)
         IN  IF ~InRange(flds, i) THEN [st EXCEPT !.panic = TRUE]
             ELSE IF col.primary
             THEN UpdateLoop(flds, cols, now, i + 1,
                    [st EXCEPT !.where = <<col.label>>,
                               !.whereval = <<Interface(At(flds, i), At(st.fields, i))>>])
             ELSE IF col.updated /\ ~IsTime(At(flds, i))
             THEN [st EXCEPT !.panic = TRUE]
             ELSE LET s1 == IF col.updated
                            THEN [st EXCEPT !.fields = SetAt(@, i, now)] ELSE st
                      s2 == [s1 EXCEPT !.columns = Append(@, col.label)]
                  IN  IF col.goType = GoTime
                      THEN IF ~IsTime(At(flds, i)) THEN [s2 EXCEPT !.panic = TRUE]
                           ELSE UpdateLoop(flds, cols, now, i + 1,
                                  [s2 EXCEPT !.vals = Append(@, Val("int64", At(s2.fields, i)))])
                      ELSE UpdateLoop(flds, cols, now, i + 1,
                             [s2 EXCEPT !.vals = Append(@, Interface(At(flds, i), At(s2.fields, i)))])

\* variant of Update that leaves zero-valued fields out of the SET clause
UpdateSQL_SkipEmpty(flds, fields, md, now) ==
    LET st == UpdateLoop(flds, md.cols, now, 0,
                         [fields |-> fields, columns |-> <<>>, vals |-> <<>>,
                          where |-> <<>>, whereval |-> <<>>, panic |-> FALSE])
        Keep(k) == ~md.cols[k].primary /\ st.fields[k] # 0
        kept == IF st.panic THEN <<>>
                ELSE SelectSeq([k \in 1..Len(md.cols) |-> k], Keep)
    IN  [query |-> IF st.panic THEN <<>>
                   ELSE <<"UPDATE", md.table, "SET">>
                        \o Flatten([k \in 1..Len(kept) |-> <<md.cols[kept[k]].label>>], <<"=", "?", ",">>)
                        \o <<"=", "?">>
                        \o <<"WHERE">> \o st.where \o <<"=", "?">>,
         columns |-> [k \in 1..Len(kept) |-> md.cols[kept[k]].label],
         vals |-> st.vals \o (IF st.whereval = <<>> THEN <<Val("nil", 0)>> ELSE st.whereval),
         fields |-> st.fields, panic |-> st.panic]

\* MySQLDriver.Update; whereval is nil (Val("nil", 0)) when no column is primary
UpdateSQL(flds, fields, md, now) ==
    LET st == UpdateLoop(flds, md.cols, now, 0,
                         [fields |-> fields, columns |-> <<>>, vals |-> <<>>,
                          where |-> <<>>, whereval |-> <<>>, panic |-> FALSE])
    IN  [query |-> IF st.panic THEN <<>>
                   ELSE <<"UPDATE", md.table, "SET">>
                        \o Flatten([k \in 1..Len(st.columns) |-> <<st.columns[k]>>], <<"=", "?", ",">>)
                        \o <<"=", "?">>
                        \o <<"WHERE">> \o st.where \o <<"=", "?">>,
         columns |-> st.columns,
         vals |-> st.vals \o (IF st.whereval = <<>> THEN <<Val("nil", 0)>> ELSE st.whereval),
         fields |-> st.fields, panic |-> st.panic]

\* Params of the interface-based API: Where and OrderBy are raw SQL
\* fragments (token sequences, <<>> for ""), Limit an integer
MkParams(where, orderBy, limit) == [Where |-> where, OrderBy |-> orderBy, Limit |-> limit]

\* MySQLDriver.Select
SelectSQL(md, params) ==
    <<"SELECT * FROM", md.table>>
    \o (IF params.Where # <<>> THEN <<"WHERE">> \o params.Where ELSE <<>>)
    \o (IF params.OrderBy # <<>> THEN <<"ORDER BY">> \o params.OrderBy ELSE <<>>)
    \o (IF params.Limit > 0 THEN <<"LIMIT", ToString(params.Limit)>> ELSE <<>>)

\* MySQLDriver.Delete; cols[pkey] and Field(pkey) panic when out of range
DeleteSQL(flds, fields, md) ==
    IF ~InRange(md.cols, md.pkey) \/ ~InRange(flds, md.pkey)
    THEN [query |-> <<>>, vals |-> <<>>, panic |-> TRUE]
    ELSE [query |-> <<"DELETE FROM", md.table, "WHERE", At(md.cols, md.pkey).label, "=", "?">>,
          vals |-> <<Interface(At(flds, md.pkey), At(fields, md.pkey))>>,
          panic |-> FALSE]

\* ------------------------------------------------- the rows a query returns
\* The raw value database/sql hands to a *interface{} for column c in the
\* j-th row of a result.  Every payload of row j is j, so a field's value
\* tells which row it was read from.
Natural(c, j) ==
    IF c.json
    THEN Text("bytes", j, CASE c.goType \in {GoInt, GoFloat} -> "num"
                            [] c.goType = GoString -> "str"
                            [] c.goType = GoBool -> "bool"
                            [] OTHER -> "obj")
    ELSE IF c.goType = GoStruct THEN Text("bytes", j, "obj")
    ELSE CASE c.goType = GoInt -> Val("int64", j)
           [] c.goType = GoFloat -> Val("float64", j)
           [] c.goType = GoString -> Text("string", j, "txt")
           [] c.goType = GoBool -> Val("bool", j)
           [] OTHER -> Val("int64", j)

RowShapes == {"good", "strtime", "badtime", "mismatch", "short"}

RawValue(c, shape, j) ==
    CASE shape = "strtime" /\ c.goType = GoTime /\ ~c.json -> Text("string", j, "num")
      [] shape = "badtime" /\ c.goType = GoTime /\ ~c.json -> Text("string", j, "txt")
      [] shape = "mismatch" /\ c.goType \in {GoInt, GoFloat, GoBool} /\ ~c.json -> Text("string", j, "txt")
      [] shape = "mismatch" /\ c.goType = GoString /\ ~c.json -> Val("int64", j)
      [] shape = "mismatch" /\ c.goType = GoTime /\ ~c.json -> Val("float64", j)
      [] shape = "null" -> Val("nil", 0)
      [] OTHER -> Natural(c, j)

\* the j-th row of a result over the table of schema md
RowOf(md, shape, j) ==
    IF shape = "short" THEN <<>>
    ELSE [k \in 1..Len(md.cols) |-> RawValue(md.cols[k], shape, j)]

RECURSIVE SeqsUpTo(_, _)
SeqsUpTo(S, n) ==
    IF n = 0 THEN {<<>>}
    ELSE LET shorter == SeqsUpTo(S, n - 1)
         IN  shorter \cup {Append(q, x) : q \in {y \in shorter : Len(y) = n - 1}, x \in S}

\* What the execution collaborator answers: Query fails or yields rows
\* (given by their shapes), Exec fails or reports the rows affected.
QueryResults ==
    {[fail |-> TRUE, rows |-> <<>>]}
    \cup {[fail |-> FALSE, rows |-> r] : r \in SeqsUpTo(RowShapes, MaxRows)}

\* GetExisting and Refresh call rows.Next() and Scan once: the rows after the
\* first are never read, so they are taken well-formed here, none or
\* MaxRows - 1 of them
FetchResults ==
    {[fail |-> TRUE, rows |-> <<>>], [fail |-> FALSE, rows |-> <<>>]}
    \cup {[fail |-> FALSE, rows |-> <<s>> \o [k \in 1..m |-> "good"]] :
             s \in RowShapes, m \in {0, MaxRows - 1}}

\* the answers to a Query that fails or yields rows that are all well-formed
GoodResults ==
    {[fail |-> TRUE, rows |-> <<>>]}
    \cup {[fail |-> FALSE, rows |-> [k \in 1..m |-> "good"]] : m \in {0, 1, MaxRows}}

ExecResults == {[fail |-> TRUE, n |-> 0], [fail |-> FALSE, n |-> 1]}

\* ------------------------------------------------------------- populate
ErrScan == "error scanning row"
ErrJson == "error unmarshalling column flagged as json"
ErrParseTime == "error parsing time"
ErrInvalidTime == "invalid time type"
ErrStruct == "structs must be marked as json or ignored"

IntKinds == {"int", "int8", "int16", "int32", "int64"}

\* whether reflect's SetInt/SetFloat/SetString/SetBool/Set(time) accepts field f
Settable(goType, f) ==
    CASE goType = GoInt -> f.kind \in IntKinds
      [] goType = GoFloat -> f.kind \in {"float32", "float64"}
      [] goType = GoString -> f.kind = "string"
      [] goType = GoBool -> f.kind = "bool"
      [] goType = GoTime -> IsTime(f)
      [] OTHER -> FALSE

\* the dynamic kind the type assertion values[i].(T) of a scalar case wants
Asserted(goType) ==
    CASE goType = GoInt -> "int64"
      [] goType = GoFloat -> "float64"
      [] goType = GoString -> "string"
      [] OTHER -> "bool"

\* populate, the loop over d.meta.cols; st = [fields, err, panic, done]
RECURSIVE PopulateLoop(_, _, _, _, _)
PopulateLoop(flds, cols, row, i, st) ==
    IF st.panic \/ st.done \/ i >= Len(cols) THEN st
    ELSE LET c == At(cols, i)
             v == At(row, i)
         IN  IF c.json
             THEN IF v.k # "bytes" \/ ~InRange(flds, i) THEN [st EXCEPT !.panic = TRUE]
                  ELSE IF v.txt # JsonText(At(flds, i))
                  THEN [st EXCEPT !.err = ErrJson, !.done = TRUE]
                  ELSE PopulateLoop(flds, cols, row, i + 1,
                         [st EXCEPT !.err = ErrNone, !.fields = SetAt(@, i, v.v)])
             ELSE IF c.goType \in {GoInt, GoFloat, GoString, GoBool}
             THEN IF v.k # Asserted(c.goType) \/ ~InRange(flds, c.field)
                  THEN [st EXCEPT !.panic = TRUE]
                  ELSE IF ~Settable(c.goType, At(flds, c.field))
                  THEN [st EXCEPT !.panic = TRUE]
                  ELSE PopulateLoop(flds, cols, row, i + 1,
                         [st EXCEPT !.fields = SetAt(@, c.field, v.v)])
             ELSE IF c.goType = GoTime
             THEN IF v.k = "string" /\ v.txt # "num"
                  THEN [st EXCEPT !.err = ErrParseTime, !.done = TRUE]
                  ELSE IF v.k \notin {"string", "int64"}
                  THEN [st EXCEPT !.err = ErrInvalidTime, !.done = TRUE]
                  ELSE IF ~InRange(flds, c.field) THEN [st EXCEPT !.panic = TRUE]
                  ELSE IF ~Settable(GoTime, At(flds, c.field))
                  THEN [st EXCEPT !.panic = TRUE]
                  ELSE PopulateLoop(flds, cols, row, i + 1,
                         [st EXCEPT !.err = IF v.k = "string" THEN ErrNone ELSE @,
                                    !.fields = SetAt(@, c.field, v.v)])
             ELSE PopulateLoop(flds, cols, row, i + 1, [st EXCEPT !.err = ErrStruct])

\* populate: rows.Scan fails unless the row has one value per column
Populate(flds, fields, md, row) ==
    IF Len(row) # Len(md.cols)
    THEN [fields |-> fields, err |-> ErrScan, n |-> 0, panic |-> FALSE]
    ELSE LET st == PopulateLoop(flds, md.cols, row, 0,
                     [fields |-> fields, err |-> ErrNone, panic |-> FALSE, done |-> FALSE])
         IN  [fields |-> st.fields, err |-> st.err,
              n |-> IF st.err = ErrNone /\ ~st.panic THEN 1 ELSE 0,
              panic |-> st.panic]

\* ------------------------------------------------------- validateMetadata
ErrNotInit == "database object not initialized"
ErrNoTable == "table name not specified"
ErrNoPkey == "no primary key specified"
ErrFkeyPkey == "foreign key cannot be the same as primary key"

ValidationErrors == {ErrNoTable, ErrNoPkey, ErrFkeyPkey}

\* meta is the pointer d.meta: <<>> for nil, <<md>> otherwise; the result
\* carries the error and what d.meta points to afterwards
\* variant of validateMetadata that does not look at the table name
validateMetadata_NoTableCheck(meta) ==
    IF meta = <<>> THEN [err |-> ErrNotInit, meta |-> meta]
    ELSE LET md == meta[1]
         IN  IF md.validated THEN [err |-> ErrNone, meta |-> meta]
             ELSE IF md.pkey < 0 THEN [err |-> ErrNoPkey, meta |-> meta]
             ELSE IF md.fkey = md.pkey THEN [err |-> ErrFkeyPkey, meta |-> meta]
             ELSE [err |-> ErrNone, meta |-> <<[md EXCEPT !.validated = TRUE]>>]

validateMetadata(meta) ==
    IF meta = <<>> THEN [err |-> ErrNotInit, meta |-> meta]
    ELSE LET md == meta[1]
         IN  IF md.validated THEN [err |-> ErrNone, meta |-> meta]
             ELSE IF md.table = "" THEN [err |-> ErrNoTable, meta |-> meta]
             ELSE IF md.pkey < 0 THEN [err |-> ErrNoPkey, meta |-> meta]
             ELSE IF md.fkey = md.pkey THEN [err |-> ErrFkeyPkey, meta |-> meta]
             ELSE [err |-> ErrNone, meta |-> <<[md EXCEPT !.validated = TRUE]>>]

\* -------------------------------------------------------------- the state
VARIABLES
    objects,    \* DB.objects: the schema cache, reflect.Type -> DBObjectMetadata
    recs,       \* the caller's records with their embedded DBObjectAddOn
    LastQuery,  \* DB.LastQuery
    sent,       \* the statement the execution collaborator received last
    slc,        \* the destination slice of the last GetMany
    now,        \* the clock read by time.Now()
    last,       \* the last call: operation, record, returned error and count
    crashed     \* the process died of a panic or a fatal runtime error

vars == <<objects, recs, LastQuery, sent, slc, now, last, crashed>>

\* A record of type t: its field values, d.meta (<<>> is nil), and pend, the
\* schema an Init in progress has built and not yet stored (<<>> if none)
NewRec(t, f) ==
    [ typ |-> t,
      fields |-> [k \in 1..Len(TypeFields[t]) |-> IF k = f THEN 1 ELSE 0],
      meta |-> <<>>,
      pend |-> <<>> ]

\* the fields application code gives a value to when it makes a record
CallerFields(t) ==
    {0} \cup {k \in 1..Len(TypeFields[t]) :
                /\ TypeFields[t][k].tag # <<>>
                /\ <<"primary">> \notin {TypeFields[t][k].tag[j] : j \in 1..Len(TypeFields[t][k].tag)}
                /\ TypeFields[t][k].kind \in {"int", "string"}}

Insts == 1..Len(recs)

\* a finished call: init is what Init returned inside Attach, rows the number
\* of rows the collaborator's answer held, arg what the reflection API was
\* passed and bound
Call(op, i, err, n, init, called) ==
    [op |-> op, inst |-> i, err |-> err, n |-> n, init |-> init, called |-> called,
     rows |-> 0, shapes |-> <<>>, typ |-> "", arg |-> <<>>]

\* the call with the rows the collaborator answered: their number and shapes
Fetched(call, res) ==
    [call EXCEPT !.rows = IF call.called THEN Len(res.rows) ELSE 0,
                 !.shapes = IF call.called THEN res.rows ELSE <<>>]

ErrExec == "execution failure"
ErrNoRows == "no rows returned matching criteria"
ErrNoRowsRefresh == "no rows returned"

\* The outcome of a data operation on record r: the record afterwards,
\* LastQuery and the collaborator's last statement afterwards, the returned
\* error and count, whether the collaborator was called, whether it panicked.
Out(r, lq, snt, err, n, called, panic) ==
    [rec |-> r, lq |-> lq, sent |-> snt, err |-> err, n |-> n,
     called |-> called, panic |-> panic]

Validated(r, v) == [r EXCEPT !.meta = v.meta]

\* ------------------------------------------------ DBObjectAddOn.Init, Attach
\* variant of Init that stores the schema built so far when building fails
InitOut_StorePartial(objs, r) ==
    LET typ == CacheKey(r.typ)
    IN  IF Has(objs, typ)
        THEN [rec |-> [r EXCEPT !.meta = <<objs[typ]>>], objects |-> objs, err |-> ErrNone]
        ELSE LET b == BuildSchema(objs, r.typ)
             IN  [rec |-> [r EXCEPT !.meta = <<b.md>>],
                  objects |-> Store(objs, typ, b.md), err |-> b.err]

\* Init on record r against cache objs: [rec, objects, err]
InitOut(objs, r) ==
    LET typ == CacheKey(r.typ)
    IN  IF Has(objs, typ)
        THEN [rec |-> [r EXCEPT !.meta = <<objs[typ]>>], objects |-> objs, err |-> ErrNone]
        ELSE LET b == BuildSchema(objs, r.typ)
             IN  IF b.err # ErrNone
                 THEN [rec |-> r, objects |-> objs, err |-> b.err]
                 ELSE [rec |-> [r EXCEPT !.meta = <<b.md>>],
                       objects |-> Store(objs, typ, b.md), err |-> ErrNone]

\* DB.Attach: ptr.Init(ptr, d); return nil
AttachErr(initErr) == ErrNone

Attach(i) ==
    /\ ~crashed
    /\ i \in Insts
    /\ recs[i].pend = <<>>
    /\ \E o \in {InitOut(objects, recs[i])} :
           /\ recs' = [recs EXCEPT ![i] = o.rec]
           /\ objects' = o.objects
           /\ last' = Call("Attach", i, AttachErr(o.err), 0, o.err, FALSE)
           /\ crashed' = (o.err = ErrPanic)
    /\ UNCHANGED <<LastQuery, sent, slc, now>>

\* application code makes a record of type t
NewRecord(t, f, max) ==
    /\ ~crashed
    /\ Len(recs) < max
    /\ recs' = Append(recs, NewRec(t, f))
    /\ UNCHANGED <<objects, LastQuery, sent, slc, now, last, crashed>>

Tick ==
    /\ ~crashed
    /\ now < MaxTime
    /\ now' = now + 1
    /\ UNCHANGED <<objects, recs, LastQuery, sent, slc, last, crashed>>

\* ---------------------------------------------------- the data operations
CreateTableOut(r, lq, snt, res) ==
    LET v == validateMetadata(r.meta)
    IN  IF v.err # ErrNone THEN Out(r, lq, snt, v.err, 0, FALSE, FALSE)
        ELSE LET q == CreateTableSQL(v.meta[1])
             IN  IF q.panic THEN Out(Validated(r, v), lq, snt, ErrPanic, 0, FALSE, TRUE)
                 ELSE Out(Validated(r, v), q.query, q.query,
                          IF res.fail THEN ErrExec ELSE ErrNone, 0, TRUE, FALSE)

\* variant of GetExisting that keeps the caller's Limit
GetExistingOut_CallerLimit(r, lq, snt, params, res) ==
    LET v == validateMetadata(r.meta)
    IN  IF v.err # ErrNone THEN Out(r, lq, snt, v.err, 0, FALSE, FALSE)
        ELSE LET md == v.meta[1]
                 query == SelectSQL(md, params)
                 r1 == Validated(r, v)
             IN  IF res.fail THEN Out(r1, query, query, ErrExec, 0, TRUE, FALSE)
                 ELSE IF Len(res.rows) = 0 THEN Out(r1, query, query, ErrNoRows, 0, TRUE, FALSE)
                 ELSE LET p == Populate(TypeFields[r.typ], r.fields, md, RowOf(md, res.rows[1], 1))
                      IN  Out([r1 EXCEPT !.fields = p.fields], query, query,
                              IF p.panic THEN ErrPanic ELSE p.err, 0, TRUE, p.panic)

GetExistingOut(r, lq, snt, params, res) ==
    LET v == validateMetadata(r.meta)
    IN  IF v.err # ErrNone THEN Out(r, lq, snt, v.err, 0, FALSE, FALSE)
        ELSE LET md == v.meta[1]
                 query == SelectSQL(md, [params EXCEPT !.Limit = 1])
                 r1 == Validated(r, v)
             IN  IF res.fail THEN Out(r1, query, query, ErrExec, 0, TRUE, FALSE)
                 ELSE IF Len(res.rows) = 0 THEN Out(r1, query, query, ErrNoRows, 0, TRUE, FALSE)
                 ELSE LET p == Populate(TypeFields[r.typ], r.fields, md, RowOf(md, res.rows[1], 1))
                      IN  Out([r1 EXCEPT !.fields = p.fields], query, query,
                              IF p.panic THEN ErrPanic ELSE p.err, 0, TRUE, p.panic)

\* variant of SaveNew that records LastQuery only after Exec has succeeded
SaveNewOut_LateLastQuery(r, lq, snt, ignore, res, t) ==
    LET v == validateMetadata(r.meta)
    IN  IF v.err # ErrNone THEN Out(r, lq, snt, v.err, 0, FALSE, FALSE)
        ELSE LET q == InsertIgnore(TypeFields[r.typ], r.fields, v.meta[1], ignore, t)
                 r1 == [Validated(r, v) EXCEPT !.fields = q.fields]
             IN  IF q.panic THEN Out(r1, lq, snt, ErrPanic, 0, FALSE, TRUE)
                 ELSE IF res.fail THEN Out(r1, lq, q.query, ErrExec, 0, TRUE, FALSE)
                 ELSE Out(r1, q.query, q.query, ErrNone, res.n, TRUE, FALSE)

SaveNewOut(r, lq, snt, ignore, res, t) ==
    LET v == validateMetadata(r.meta)
    IN  IF v.err # ErrNone THEN Out(r, lq, snt, v.err, 0, FALSE, FALSE)
        ELSE LET q == InsertIgnore(TypeFields[r.typ], r.fields, v.meta[1], ignore, t)
                 r1 == [Validated(r, v) EXCEPT !.fields = q.fields]
             IN  IF q.panic THEN Out(r1, lq, snt, ErrPanic, 0, FALSE, TRUE)
                 ELSE IF res.fail THEN Out(r1, q.query, q.query, ErrExec, 0, TRUE, FALSE)
                 ELSE Out(r1, q.query, q.query, ErrNone, res.n, TRUE, FALSE)

SaveExistingOut(r, lq, snt, res, t) ==
    LET v == validateMetadata(r.meta)
    IN  IF v.err # ErrNone THEN Out(r, lq, snt, v.err, 0, FALSE, FALSE)
        ELSE LET q == UpdateSQL(TypeFields[r.typ], r.fields, v.meta[1], t)
                 r1 == [Validated(r, v) EXCEPT !.fields = q.fields]
             IN  IF q.panic THEN Out(r1, lq, snt, ErrPanic, 0, FALSE, TRUE)
                 ELSE IF res.fail THEN Out(r1, q.query, q.query, ErrExec, 0, TRUE, FALSE)
                 ELSE Out(r1, q.query, q.query, ErrNone, res.n, TRUE, FALSE)

RefreshOut(r, lq, snt, res) ==
    LET v == validateMetadata(r.meta)
    IN  IF v.err # ErrNone THEN Out(r, lq, snt, v.err, 0, FALSE, FALSE)
        ELSE LET md == v.meta[1]
                 r1 == Validated(r, v)
             IN  IF ~InRange(md.cols, md.pkey) THEN Out(r1, lq, snt, ErrPanic, 0, FALSE, TRUE)
                 ELSE LET p == MkParams(<<At(md.cols, md.pkey).label, "=", "?">>,
                                        IF md.refreshOrderBy = "" THEN <<>> ELSE <<md.refreshOrderBy>>,
                                        1)
                          query == SelectSQL(md, p)
                      IN  IF ~InRange(r.fields, md.pkey) THEN Out(r1, query, snt, ErrPanic, 0, FALSE, TRUE)
                          ELSE IF res.fail THEN Out(r1, query, query, ErrExec, 0, TRUE, FALSE)
                          ELSE IF Len(res.rows) = 0
                          THEN Out(r1, query, query, ErrNoRowsRefresh, 0, TRUE, FALSE)
                          ELSE LET pp == Populate(TypeFields[r.typ], r.fields, md, RowOf(md, res.rows[1], 1))
                               IN  Out([r1 EXCEPT !.fields = pp.fields], query, query,
                                       IF pp.panic THEN ErrPanic ELSE pp.err, 0, TRUE, pp.panic)

DeleteOut(r, lq, snt, res) ==
    LET v == validateMetadata(r.meta)
    IN  IF v.err # ErrNone THEN Out(r, lq, snt, v.err, 0, FALSE, FALSE)
        ELSE LET q == DeleteSQL(TypeFields[r.typ], r.fields, v.meta[1])
                 r1 == Validated(r, v)
             IN  IF q.panic THEN Out(r1, lq, snt, ErrPanic, 0, FALSE, TRUE)
                 ELSE IF res.fail THEN Out(r1, q.query, q.query, ErrExec, 0, TRUE, FALSE)
                 ELSE Out(r1, q.query, q.query, ErrNone, res.n, TRUE, FALSE)

\* a data operation op on record i ends with outcome o
Finish(op, i, o, res) ==
    /\ last' = Fetched(Call(op, i, o.err, o.n, ErrNone, o.called), res)
    /\ crashed' = o.panic
    /\ IF o.panic
       THEN UNCHANGED <<recs, LastQuery, sent>>
       ELSE /\ recs' = [recs EXCEPT ![i] = o.rec]
            /\ LastQuery' = o.lq
            /\ sent' = o.sent
    /\ UNCHANGED <<objects, slc, now>>

Ready(i) == ~crashed /\ i \in Insts /\ recs[i].pend = <<>>

\* the Params application code passes
ParamSet == {MkParams(<<>>, <<>>, 0), MkParams(<<"id = 3">>, <<"name ASC">>, 5)}

CreateTable(i, res) ==
    /\ Ready(i)
    /\ \E o \in {CreateTableOut(recs[i], LastQuery, sent, res)} :
          Finish("CreateTable", i, o, [rows |-> <<>>])

GetExisting(i, params, res) ==
    /\ Ready(i)
    /\ \E o \in {GetExistingOut(recs[i], LastQuery, sent, params, res)} :
          Finish("GetExisting", i, o, res)

SaveNew(i, ignore, res) ==
    /\ Ready(i)
    /\ \E o \in {SaveNewOut(recs[i], LastQuery, sent, ignore, res, now)} :
          Finish("SaveNew", i, o, [rows |-> <<>>])

SaveExisting(i, res) ==
    /\ Ready(i)
    /\ \E o \in {SaveExistingOut(recs[i], LastQuery, sent, res, now)} :
          Finish("SaveExisting", i, o, [rows |-> <<>>])

Refresh(i, res) ==
    /\ Ready(i)
    /\ \E o \in {RefreshOut(recs[i], LastQuery, sent, res)} :
          Finish("Refresh", i, o, res)

Delete(i, res) ==
    /\ Ready(i)
    /\ \E o \in {DeleteOut(recs[i], LastQuery, sent, res)} :
          Finish("Delete", i, o, [rows |-> <<>>])

\* -------------------------------------------------------------- DB.GetMany
\* variant of GetMany's loop that goes on to the next row when a row fails
RECURSIVE GetManyLoop_Continue(_, _, _, _, _)
GetManyLoop_Continue(t, md, rows, j, acc) ==
    IF j > Len(rows) THEN acc
    ELSE LET no == NewRec(t, 0)
             p == Populate(TypeFields[t], no.fields, md, RowOf(md, rows[j], j))
         IN  IF p.panic THEN [acc EXCEPT !.panic = TRUE]
             ELSE IF p.err # ErrNone \/ p.n = 0
             THEN GetManyLoop_Continue(t, md, rows, j + 1, acc)
             ELSE GetManyLoop_Continue(t, md, rows, j + 1, [acc EXCEPT !.slc = Append(@, p.fields)])

\* GetMany, the loop over rows.Next(): row j is materialized into a new
\* record of type t bound by Init to the cached schema md; acc = [slc, panic]
RECURSIVE GetManyLoop(_, _, _, _, _)
GetManyLoop(t, md, rows, j, acc) ==
    IF j > Len(rows) THEN acc
    ELSE LET no == NewRec(t, 0)
             p == Populate(TypeFields[t], no.fields, md, RowOf(md, rows[j], j))
         IN  IF p.panic THEN [acc EXCEPT !.panic = TRUE]
             ELSE IF p.err # ErrNone THEN acc
             ELSE IF p.n = 0 THEN GetManyLoop(t, md, rows, j + 1, acc)
             ELSE GetManyLoop(t, md, rows, j + 1, [acc EXCEPT !.slc = Append(@, p.fields)])

\* GetMany into a *[]t: [objects, lq, sent, slc, err, called, panic].
\* obj.Init's error is dropped; Select then dereferences the nil obj.meta.
GetManyOut(objs, lq, snt, dest, t, params, res) ==
    LET o == InitOut(objs, NewRec(t, 0))
        nothing == [objects |-> objs, lq |-> lq, sent |-> snt, slc |-> dest,
                    err |-> ErrPanic, called |-> FALSE, panic |-> TRUE]
    IN  IF o.rec.meta = <<>> THEN nothing
        ELSE LET md == o.rec.meta[1]
                 query == SelectSQL(md, params)
                 acc == GetManyLoop(t, o.objects[CacheKey(t)], res.rows, 1,
                                    [slc |-> <<>>, panic |-> FALSE])
             IN  IF res.fail
                 THEN [objects |-> o.objects, lq |-> query, sent |-> query, slc |-> dest,
                       err |-> ErrExec, called |-> TRUE, panic |-> FALSE]
                 ELSE IF acc.panic THEN [nothing EXCEPT !.called = TRUE]
                 ELSE [objects |-> o.objects, lq |-> query, sent |-> query, slc |-> acc.slc,
                       err |-> ErrNone, called |-> TRUE, panic |-> FALSE]

GetMany(t, params, res) ==
    /\ ~crashed
    /\ \A i \in Insts : recs[i].pend = <<>>
    /\ \E o \in {GetManyOut(objects, LastQuery, sent, slc, t, params, res)} :
          /\ last' = [Fetched(Call("GetMany", 0, o.err, Len(o.slc), ErrNone, o.called), res)
                          EXCEPT !.typ = t]
          /\ crashed' = o.panic
          /\ IF o.panic
             THEN UNCHANGED <<objects, LastQuery, sent, slc>>
             ELSE /\ objects' = o.objects
                  /\ LastQuery' = o.lq
                  /\ sent' = o.sent
                  /\ slc' = o.slc
    /\ UNCHANGED <<recs, now>>

NoCall == Call("", 0, ErrNone, 0, ErrNone, FALSE)

\* sqlez.Open
Init ==
    /\ objects = [k \in {} |-> NewMD]
    /\ recs = <<>>
    /\ LastQuery = <<>>
    /\ sent = <<>>
    /\ slc = <<>>
    /\ now = 1
    /\ last = NoCall
    /\ crashed = FALSE

\* runs of the data operations on records of valid and invalid types
Next ==
    \/ \E t \in OpTypes : \E f \in CallerFields(t) : NewRecord(t, f, MaxSolo)
    \/ \E i \in 1..MaxSolo : Attach(i)
    \/ \E i \in 1..MaxSolo : \E res \in ExecResults : CreateTable(i, res)
    \/ \E i \in 1..MaxSolo : \E params \in ParamSet, res \in FetchResults : GetExisting(i, params, res)
    \/ \E i \in 1..MaxSolo : \E ignore \in BOOLEAN, res \in ExecResults : SaveNew(i, ignore, res)
    \/ \E i \in 1..MaxSolo : \E res \in ExecResults : SaveExisting(i, res)
    \/ \E i \in 1..MaxSolo : \E res \in FetchResults : Refresh(i, res)
    \/ \E i \in 1..MaxSolo : \E res \in ExecResults : Delete(i, res)

Spec == Init /\ [][Next]_vars

\* runs that attach records of every type and create their tables
NextAttach ==
    \/ \E t \in TypeNames : NewRecord(t, 0, MaxInst)
    \/ \E i \in 1..MaxInst : Attach(i)
    \/ \E i \in 1..MaxInst : \E res \in ExecResults : CreateTable(i, res)

SpecAttach == Init /\ [][NextAttach]_vars

\* runs that save records while the clock advances
NextSave ==
    \/ \E t \in SaveTypes : \E f \in CallerFields(t) : NewRecord(t, f, MaxSolo)
    \/ \E i \in 1..MaxSolo : Attach(i)
    \/ Tick
    \/ \E i \in 1..MaxSolo : \E ignore \in BOOLEAN, res \in ExecResults : SaveNew(i, ignore, res)
    \/ \E i \in 1..MaxSolo : \E res \in ExecResults : SaveExisting(i, res)
    \/ \E i \in 1..MaxSolo : \E res \in ExecResults : Delete(i, res)

SpecSave == Init /\ [][NextSave]_vars

\* runs in which every operation that issues a statement is called, on
\* records and slices of every type, the collaborator failing or answering
\* with well-formed rows
NextQuery ==
    \/ \E t \in OpTypes : NewRecord(t, 0, MaxSolo)
    \/ \E i \in 1..MaxSolo : Attach(i)
    \/ \E i \in 1..MaxSolo : \E res \in ExecResults : CreateTable(i, res)
    \/ \E i \in 1..MaxSolo : \E params \in ParamSet, res \in GoodResults : GetExisting(i, params, res)
    \/ \E i \in 1..MaxSolo : \E res \in ExecResults : SaveNew(i, FALSE, res)
    \/ \E i \in 1..MaxSolo : \E res \in ExecResults : SaveExisting(i, res)
    \/ \E i \in 1..MaxSolo : \E res \in GoodResults : Refresh(i, res)
    \/ \E i \in 1..MaxSolo : \E res \in ExecResults : Delete(i, res)
    \/ \E t \in OpTypes : \E params \in ParamSet, res \in GoodResults : GetMany(t, params, res)

SpecQuery == Init /\ [][NextQuery]_vars

\* runs of bulk retrieval into slices of every type, rows of every shape
NextMany ==
    \/ \E t \in ManyTypes : NewRecord(t, 0, MaxSolo)
    \/ \E i \in 1..MaxSolo : Attach(i)
    \/ \E t \in ManyTypes : \E res \in QueryResults : GetMany(t, MkParams(<<>>, <<>>, 0), res)

SpecMany == Init /\ [][NextMany]_vars

\* ------------------------------------------- Init run by concurrent callers
\* DB.objects has no lock (the mutex field is commented out), so a run of
\* Init by one goroutine splits where it touches the map: the lookup (with
\* the build that follows a miss) and the store.
InitLookup(i) ==
    /\ ~crashed
    /\ i \in Insts
    /\ recs[i].pend = <<>>
    /\ LET typ == CacheKey(recs[i].typ)
       IN  IF Has(objects, typ)
           THEN /\ recs' = [recs EXCEPT ![i].meta = <<objects[typ]>>]
                /\ last' = Call("Init", i, ErrNone, 0, ErrNone, FALSE)
           ELSE \E b \in {BuildSchema(objects, recs[i].typ)} :
                  IF b.err # ErrNone
                  THEN /\ last' = Call("Init", i, b.err, 0, b.err, FALSE)
                       /\ UNCHANGED recs
                  ELSE /\ recs' = [recs EXCEPT ![i].pend = <<b.md>>]
                       /\ UNCHANGED last
    /\ UNCHANGED <<objects, LastQuery, sent, slc, now, crashed>>

\* db.objects[typ] = md; d.meta = &md.  Two goroutines that are both between
\* lookup and store write the map without synchronisation: the Go runtime
\* may stop the process ("fatal error: concurrent map writes") or let both
\* writes through, the later one winning.
InitStore(i) ==
    /\ ~crashed
    /\ i \in Insts
    /\ recs[i].pend # <<>>
    /\ \/ /\ objects' = Store(objects, CacheKey(recs[i].typ), recs[i].pend[1])
          /\ recs' = [recs EXCEPT ![i].meta = recs[i].pend, ![i].pend = <<>>]
          /\ last' = Call("Init", i, ErrNone, 0, ErrNone, FALSE)
          /\ UNCHANGED crashed
       \/ /\ \E j \in Insts : j # i /\ recs[j].pend # <<>>
          /\ crashed' = TRUE
          /\ UNCHANGED <<objects, recs, last>>
    /\ UNCHANGED <<LastQuery, sent, slc, now>>

NextConc ==
    \/ \E t \in TypeNames : NewRecord(t, 0, MaxInst)
    \/ \E i \in 1..MaxInst : InitLookup(i)
    \/ \E i \in 1..MaxInst : InitStore(i)
    \/ \E i \in 1..MaxInst : \E res \in ExecResults : CreateTable(i, res)

SpecConc == Init /\ [][NextConc]_vars

\* runs that generate INSERT and UPDATE statements and read rows back, all
\* within one reading of the clock
NextStmt ==
    \/ \E t \in StmtTypes : \E f \in CallerFields(t) : NewRecord(t, f, MaxSolo)
    \/ \E i \in 1..MaxSolo : Attach(i)
    \/ \E i \in 1..MaxSolo : \E ignore \in BOOLEAN, res \in ExecResults : SaveNew(i, ignore, res)
    \/ \E i \in 1..MaxSolo : \E res \in ExecResults : SaveExisting(i, res)
    \/ \E i \in 1..MaxSolo : \E res \in GoodResults : Refresh(i, res)

SpecStmt == Init /\ [][NextStmt]_vars

\* the record types whose schema building fails on an empty cache
FailTypes == {t \in TypeNames : BuildSchema([k \in {} |-> NewMD], t).err # ErrNone}

\* runs of every data operation on records whose attach may have failed
NextFail ==
    \/ \E t \in FailTypes \cup {"User"} : NewRecord(t, 0, MaxSolo)
    \/ \E i \in 1..MaxSolo : Attach(i)
    \/ \E i \in 1..MaxSolo : \E res \in ExecResults : CreateTable(i, res)
    \/ \E i \in 1..MaxSolo : \E params \in ParamSet, res \in GoodResults : GetExisting(i, params, res)
    \/ \E i \in 1..MaxSolo : \E ignore \in BOOLEAN, res \in ExecResults : SaveNew(i, ignore, res)
    \/ \E i \in 1..MaxSolo : \E res \in ExecResults : SaveExisting(i, res)
    \/ \E i \in 1..MaxSolo : \E res \in GoodResults : Refresh(i, res)
    \/ \E i \in 1..MaxSolo : \E res \in ExecResults : Delete(i, res)

SpecFail == Init /\ [][NextFail]_vars

\* ===================================================== the reflection API
\* DB.SelectFrom, DB.InsertInto and DB.Update take a struct and scan its
\* fields on every call (scanStruct); they keep no schema.  A field is
\* [kind, elem, db, json, skip]: its kind, the struct type of a struct-kind
\* field, the labels of its db and dbjson tags ("" for none) and whether it
\* has a dbskip tag.  A struct value is the sequence of its fields' values,
\* a nested struct being a sequence again; 0 is the zero value.
OFld(kind, elem, db, json, skip) ==
    [kind |-> kind, elem |-> elem, db |-> db, json |-> json, skip |-> skip]

StructTypes ==
    [ Awesomeness |->
        << OFld("string", "", "weakness", "", FALSE),
           OFld("string", "", "superMove", "", FALSE) >>,
      WrestlerBio |->
        << OFld("string", "", "name", "", FALSE),
           OFld("string", "", "callsign", "", FALSE),
           OFld("int", "", "age", "", FALSE),
           OFld("int", "", "", "", FALSE),
           OFld("struct", "Awesomeness", "", "", FALSE) >>,
      Scored |->
        << OFld("string", "", "name", "", FALSE),
           OFld("int", "", "age", "", FALSE),
           OFld("map", "", "", "points", FALSE) >>,
      Plain |->
        << OFld("string", "", "name", "", FALSE),
           OFld("string", "", "callsign", "", FALSE),
           OFld("int", "", "age", "", FALSE) >> ]

\* the struct types application code passes to the reflection API
ArgTypes == {"WrestlerBio", "Scored", "Plain"}

\* reflect.Zero of a struct type
RECURSIVE ZeroOf(_)
ZeroOf(tname) ==
    [k \in 1..Len(StructTypes[tname]) |->
        IF StructTypes[tname][k].kind = "struct"
        THEN ZeroOf(StructTypes[tname][k].elem) ELSE 0]

\* whether Go can compare two values of the field's type with ==
RECURSIVE Comparable(_)
Comparable(f) ==
    CASE f.kind \in {"map", "slice"} -> FALSE
      [] f.kind = "struct" ->
            \A k \in 1..Len(StructTypes[f.elem]) : Comparable(StructTypes[f.elem][k])
      [] OTHER -> TRUE

ErrNoLabels == "sqlez: couldn't find any fields labeled db or dbjson"

\* scanStruct, the loop over the fields of struct type tname with value v
\* found at path in the outer struct; st = [labels, data, err, panic].
\* With pointers a datum is the target a column is scanned into: [kind, path]
\* with kind "nullstring" (a sql.NullString kept in nullStringPtr), "json"
\* (one kept in jsonPtr) or the field's own kind (field.Addr()); without, it
\* is the value bound to a placeholder: [kind, v], kind "json" for a payload.
RECURSIVE ScanStructLoop(_, _, _, _, _, _, _)
ScanStructLoop(tname, v, path, pointers, skipEmpty, i, st) ==
    IF st.panic \/ st.err # ErrNone \/ i > Len(StructTypes[tname]) THEN st
    ELSE LET f == StructTypes[tname][i]
             jsonexists == f.json # ""
             dbexists == f.db # ""
             label == IF f.json = "" /\ f.db # "" THEN f.db ELSE f.json
             zero == IF f.kind = "struct" THEN ZeroOf(f.elem) ELSE 0
             skip == skipEmpty /\ v[i] = zero
             here == Append(path, i)
         IN  IF skipEmpty /\ ~Comparable(f) THEN [st EXCEPT !.panic = TRUE]
             ELSE IF f.skip
             THEN ScanStructLoop(tname, v, path, pointers, skipEmpty, i + 1, st)
             ELSE IF f.kind = "struct" /\ ~jsonexists
             THEN LET sub == ScanStructLoop(f.elem, v[i], here, pointers, skipEmpty, 1,
                                 [labels |-> <<>>, data |-> <<>>, err |-> ErrNone, panic |-> FALSE])
                  IN  IF sub.panic THEN [st EXCEPT !.panic = TRUE]
                      ELSE IF Len(sub.labels) = 0 THEN [st EXCEPT !.err = ErrNoLabels]
                      ELSE IF sub.err # ErrNone THEN [st EXCEPT !.err = sub.err]
                      ELSE ScanStructLoop(tname, v, path, pointers, skipEmpty, i + 1,
                              [st EXCEPT !.labels = @ \o sub.labels, !.data = @ \o sub.data])
             ELSE IF jsonexists \/ (dbexists /\ f.kind = "map")
             THEN ScanStructLoop(tname, v, path, pointers, skipEmpty, i + 1,
                     [st EXCEPT !.labels = Append(@, label),
                                !.data = Append(@, IF pointers
                                                   THEN [kind |-> "json", path |-> here]
                                                   ELSE [kind |-> "json", v |-> v[i]])])
             ELSE IF dbexists /\ ~skip
             THEN ScanStructLoop(tname, v, path, pointers, skipEmpty, i + 1,
                     [st EXCEPT !.labels = Append(@, label),
                                !.data = Append(@, IF pointers
                                                   THEN [kind |-> IF f.kind = "string"
                                                                  THEN "nullstring" ELSE f.kind,
                                                         path |-> here]
                                                   ELSE [kind |-> f.kind, v |-> v[i]])])
             ELSE ScanStructLoop(tname, v, path, pointers, skipEmpty, i + 1, st)

\* DB.scanStruct on the struct passed by the caller (firstRun)
scanStruct(tname, v, pointers, skipEmpty) ==
    LET st == ScanStructLoop(tname, v, <<>>, pointers, skipEmpty, 1,
                  [labels |-> <<>>, data |-> <<>>, err |-> ErrNone, panic |-> FALSE])
    IN  IF ~st.panic /\ st.err = ErrNone /\ Len(st.labels) = 0
        THEN [st EXCEPT !.err = ErrNoLabels] ELSE st

\* Params of the reflection API; Where and OrderBy are token sequences
OldParams(where, orderBy, limit, skipEmpty, orIgnore) ==
    [Where |-> where, OrderBy |-> orderBy, Limit |-> limit,
     SkipEmpty |-> skipEmpty, OrIgnore |-> orIgnore]

ErrWhere(op) == "sqlez." \o op \o ": Params.Where starts with WHERE"
ErrOrder(op) == "sqlez." \o op \o ": Params.OrderBy starts with ORDER"
ErrScanNull == "sql: Scan error: converting NULL to int is unsupported"

\* strings.ToLower(s[:5]) == word, on the first token of a clause
StartsWith(clause, word) ==
    clause # <<>> /\ clause[1] \in {word, IF word = "where" THEN "WHERE" ELSE "ORDER"}

\* the WHERE, ORDER BY and LIMIT text SelectFrom and Update build: [text, err]
OldOptions(op, p) ==
    IF StartsWith(p.Where, "where") THEN [text |-> <<>>, err |-> ErrWhere(op)]
    ELSE IF StartsWith(p.OrderBy, "order") THEN [text |-> <<>>, err |-> ErrOrder(op)]
    ELSE [text |-> (IF p.Where # <<>> THEN <<"WHERE">> \o p.Where ELSE <<>>)
                   \o (IF p.OrderBy # <<>> THEN <<"ORDER BY">> \o p.OrderBy ELSE <<>>)
                   \o (IF p.Limit > 0 THEN <<"LIMIT", ToString(p.Limit)>> ELSE <<>>),
          err |-> ErrNone]

\* the shapes of a row the database answers SelectFrom with: no NULL, NULL
\* in every string column, in every json column, in every int column
OldShapes == {"full", "nullstr", "nulljson", "nullint"}

\* whether the column scanned into target d is NULL in a row of the shape
IsNull(d, shape) ==
    \/ shape = "nullstr" /\ d.kind = "nullstring"
    \/ shape = "nulljson" /\ d.kind = "json"
    \/ shape = "nullint" /\ d.kind = "int"

OldResults ==
    {[fail |-> TRUE, rows |-> <<>>]} \cup
    UNION {{[fail |-> FALSE, rows |-> r] : r \in [1..m -> OldShapes]} : m \in 0..MaxRows}

\* the struct v with the field at path set to x
RECURSIVE SetPath(_, _, _)
SetPath(v, path, x) ==
    IF Len(path) = 1 THEN [v EXCEPT ![path[1]] = x]
    ELSE [v EXCEPT ![path[1]] = SetPath(v[path[1]], Tail(path), x)]

RECURSIVE GetPath(_, _)
GetPath(v, path) ==
    IF path = <<>> THEN v ELSE GetPath(v[path[1]], Tail(path))

\* One row of SelectFrom's loop on the struct copy: result.Scan(pointers...)
\* writes the row's payload j into the fields scanned directly and into the
\* sql.NullStrings, then those that are Valid are unmarshalled or unwrapped
\* into their fields: [copy, err].
RECURSIVE ScanRow(_, _, _, _, _)
ScanRow(copy, ptrs, shape, j, k) ==
    IF k > Len(ptrs) THEN [copy |-> copy, err |-> ErrNone]
    ELSE IF IsNull(ptrs[k], shape)
    THEN IF ptrs[k].kind \in {"nullstring", "json"}
         THEN ScanRow(copy, ptrs, shape, j, k + 1)
         ELSE [copy |-> copy, err |-> ErrScanNull]
    ELSE ScanRow(SetPath(copy, ptrs[k].path, j), ptrs, shape, j, k + 1)

\* the for result.Next() loop: one copy for every row, appended by value
RECURSIVE SelectLoop(_, _, _, _, _)
SelectLoop(copy, ptrs, rows, j, out) ==
    IF j > Len(rows) THEN [out |-> out, err |-> ErrNone]
    ELSE LET s == ScanRow(copy, ptrs, rows[j], j, 1)
         IN  IF s.err # ErrNone THEN [out |-> out, err |-> s.err]
             ELSE SelectLoop(s.copy, ptrs, rows, j + 1, Append(out, s.copy))

\* DB.SelectFrom: [lq, sent, out, err, called]
SelectFromOut(lq, snt, table, tname, p, res) ==
    LET sc == scanStruct(tname, ZeroOf(tname), TRUE, FALSE)
        opt == OldOptions("SelectFrom", p)
        query == <<"SELECT">> \o Flatten([k \in 1..Len(sc.labels) |-> <<sc.labels[k]>>], <<",">>)
                 \o <<"FROM", table>> \o opt.text
    IN  IF sc.err # ErrNone
        THEN [lq |-> lq, sent |-> snt, out |-> <<>>, err |-> sc.err, called |-> FALSE]
        ELSE IF opt.err # ErrNone
        THEN [lq |-> lq, sent |-> snt, out |-> <<>>, err |-> opt.err, called |-> FALSE]
        ELSE IF res.fail
        THEN [lq |-> query, sent |-> query, out |-> <<>>, err |-> ErrExec, called |-> TRUE]
        ELSE LET l == SelectLoop(ZeroOf(tname), sc.data, res.rows, 1, <<>>)
             IN  [lq |-> query, sent |-> query, out |-> l.out, err |-> l.err,
                  called |-> TRUE]

\* the statement InsertInto builds from the labels scanStruct found
InsertIntoSQL(table, labels, p) ==
    <<IF p.OrIgnore THEN "INSERT OR IGNORE INTO" ELSE "INSERT INTO", table, "(">>
    \o Flatten([k \in 1..Len(labels) |-> <<labels[k]>>], <<",">>) \o <<") VALUES (">>
    \o Flatten([k \in 1..Len(labels) |-> <<"?">>], <<",">>) \o <<")">>

\* the statement Update builds
OldUpdateSQL(table, labels, options) ==
    <<"UPDATE", table, "SET">>
    \o Flatten([k \in 1..Len(labels) |-> <<labels[k], "=", "?">>], <<",">>) \o options

\* DB.InsertInto and DB.Update on the struct v: [lq, sent, vals, err, n,
\* called, panic]; a panic of the zero-value comparison ends the process
WriteOut(op, lq, snt, table, tname, v, p, res) ==
    LET opt == IF op = "Update" THEN OldOptions("Update", p)
               ELSE [text |-> <<>>, err |-> ErrNone]
        sc == scanStruct(tname, v, FALSE, p.SkipEmpty)
        query == IF op = "Update" THEN OldUpdateSQL(table, sc.labels, opt.text)
                 ELSE InsertIntoSQL(table, sc.labels, p)
        none == [lq |-> lq, sent |-> snt, vals |-> <<>>, err |-> ErrNone, n |-> 0,
                 called |-> FALSE, panic |-> FALSE]
    IN  IF opt.err # ErrNone THEN [none EXCEPT !.err = opt.err]
        ELSE IF sc.panic THEN [none EXCEPT !.err = ErrPanic, !.panic = TRUE]
        ELSE IF sc.err # ErrNone THEN [none EXCEPT !.err = sc.err]
        ELSE [lq |-> query, sent |-> query, vals |-> sc.data,
              err |-> IF res.fail THEN ErrExec ELSE ErrNone,
              n |-> IF res.fail THEN 0 ELSE res.n, called |-> TRUE, panic |-> FALSE]

\* DB.SelectFrom(table, structure, p) with a zero struct of type t
SelectFrom(table, t, p, res) ==
    /\ ~crashed
    /\ \E o \in {SelectFromOut(LastQuery, sent, table, t, p, res)} :
          /\ last' = [Call("SelectFrom", 0, o.err, Len(o.out), ErrNone, o.called)
                          EXCEPT !.typ = t, !.rows = IF o.called THEN Len(res.rows) ELSE 0,
                                 !.shapes = IF o.called THEN res.rows ELSE <<>>]
          /\ LastQuery' = o.lq
          /\ sent' = o.sent
          /\ slc' = o.out
    /\ UNCHANGED <<objects, recs, now, crashed>>

\* DB.InsertInto(table, v, p) and DB.Update(table, v, p); last.arg keeps the
\* struct passed, the Params and the values bound
Write(op, table, t, v, p, res) ==
    /\ ~crashed
    /\ \E o \in {WriteOut(op, LastQuery, sent, table, t, v, p, res)} :
          /\ last' = [Call(op, 0, o.err, o.n, ErrNone, o.called)
                          EXCEPT !.typ = t, !.arg = <<v, p, o.vals>>]
          /\ crashed' = o.panic
          /\ LastQuery' = o.lq
          /\ sent' = o.sent
    /\ UNCHANGED <<objects, recs, slc, now>>

InsertInto(table, t, v, p, res) == Write("InsertInto", table, t, v, p, res)

Update(table, t, v, p, res) == Write("Update", table, t, v, p, res)

\* the structs application code passes: every field zero or set to 1
RECURSIVE StructPrefixes(_, _)
StructPrefixes(tname, n) ==
    IF n = 0 THEN {<<>>}
    ELSE LET f == StructTypes[tname][n]
         IN  {Append(v, x) : v \in StructPrefixes(tname, n - 1),
                             x \in IF f.kind = "struct"
                                   THEN StructPrefixes(f.elem, Len(StructTypes[f.elem]))
                                   ELSE {0, 1}}

\* the number of fields of a struct that are not zero, nested ones included
RECURSIVE Weight(_, _, _)
Weight(tname, v, n) ==
    IF n = 0 THEN 0
    ELSE LET f == StructTypes[tname][n]
         IN  Weight(tname, v, n - 1)
             + (IF f.kind = "struct" THEN Weight(f.elem, v[n], Len(v[n])) ELSE v[n])

\* the most fields a caller sets in a struct it passes
MaxSet == 2

StructValues(tname) ==
    {v \in StructPrefixes(tname, Len(StructTypes[tname])) : Weight(tname, v, Len(v)) <= MaxSet}

OldParamSet ==
    {OldParams(<<"name = ?">>, <<>>, 0, se, FALSE) : se \in BOOLEAN}
    \cup {OldParams(<<"WHERE", "name = ?">>, <<>>, 0, FALSE, FALSE),
          OldParams(<<>>, <<"ORDER", "BY name">>, 1, FALSE, TRUE)}

SelectParamSet ==
    OldParamSet \cup {OldParams(<<>>, <<>>, 0, FALSE, FALSE),
                      OldParams(<<"age > 30">>, <<"age DESC">>, 2, FALSE, FALSE)}

\* reads through the reflection API
NextSelect ==
    \E t \in ArgTypes, p \in SelectParamSet, res \in OldResults :
        SelectFrom("wrestlers", t, p, res)

SpecSelect == Init /\ [][NextSelect]_vars

\* writes through the reflection API
NextWrite ==
    \/ \E t \in ArgTypes, p \in OldParamSet, res \in ExecResults :
          \E v \in StructValues(t) : InsertInto("wrestlers", t, v, p, res)
    \/ \E t \in ArgTypes, p \in OldParamSet, res \in ExecResults :
          \E v \in StructValues(t) : Update("wrestlers", t, v, p, res)

SpecWrite == Init /\ [][NextWrite]_vars

\* ================================================================ claims
DataOps == {"CreateTable", "GetExisting", "SaveNew", "SaveExisting", "Refresh", "Delete"}

Attached(i) == i \in Insts /\ recs[i].meta # <<>>

\* the schema the annotations of record type t describe
SchemaFrom(t) == BuildSchema(objects, t).md

SameSchema(a, b) == a.table = b.table /\ a.cols = b.cols /\ a.pkey = b.pkey

\* C1: once records of two different types are attached to the DB handle,
\* each is bound to the schema of its own type's annotations (own table
\* name, own column list).
C1_SchemaPerType ==
    \A i, j \in Insts :
        (Attached(i) /\ Attached(j) /\ recs[i].typ # recs[j].typ)
            => /\ SameSchema(recs[i].meta[1], SchemaFrom(recs[i].typ))
               /\ SameSchema(recs[j].meta[1], SchemaFrom(recs[j].typ))

\* the field of type t that carries the foreign flag (0 if none), 1-based
ForeignField(t) ==
    LET fs == {k \in 1..Len(TypeFields[t]) :
                 \E j \in 2..Len(TypeFields[t][k].tag) : TypeFields[t][k].tag[j] = <<"foreign">>}
    IN  IF fs = {} THEN 0 ELSE CHOOSE k \in fs : TRUE

EndsWith(q, suffix) ==
    /\ Len(q) >= Len(suffix)
    /\ SubSeq(q, Len(q) - Len(suffix) + 1, Len(q)) = suffix

\* the clause CREATE TABLE must end with for a record of type t whose
\* foreign field refers to a record type with schema ref
ExpectedForeign(t, ref) ==
    <<"FOREIGN KEY", "(", TypeFields[t][ForeignField(t)].tag[1][1], ")",
      "REFERENCES", ref.table, "(">>
    \o <<(CHOOSE c \in {ref.cols[k] : k \in 1..Len(ref.cols)} : c.primary).label>>
    \o <<")", ")">>

\* C2: an attach of a type with a foreign field fails with "foreign table
\* not yet defined" while the referenced type is unattached; once the
\* referenced type is attached it succeeds and the CREATE TABLE of the
\* referencing type ends with FOREIGN KEY (col) REFERENCES table(col).
C2_ForeignKeyOrder ==
    (last.op = "Attach" /\ ForeignField(recs[last.inst].typ) # 0
     /\ TypeFields[recs[last.inst].typ][ForeignField(recs[last.inst].typ)].kind = "ptr")
        => LET t == recs[last.inst].typ
               ref == TypeFields[t][ForeignField(t)].elem
           IN  IF \E j \in Insts : recs[j].typ = ref /\ Attached(j)
               THEN /\ last.init = ErrNone
                    /\ Attached(last.inst)
                    /\ EndsWith(CreateTableSQL(recs[last.inst].meta[1]).query,
                                ExpectedForeign(t, SchemaFrom(ref)))
               ELSE last.init = ErrForeignUndefined

\* C3: Attach returns to its caller the error schema building ended with
\* (none when the build succeeded).
C3_AttachReturnsBuildError ==
    last.op = "Attach" => last.err = last.init

\* C4: two callers attaching the same unregistered type concurrently never
\* both build a schema and never both stand before the unsynchronised write
\* of the cache.
C4_SingleBuild ==
    \A i, j \in Insts :
        (i # j /\ recs[i].typ = recs[j].typ) => ~(recs[i].pend # <<>> /\ recs[j].pend # <<>>)

\* a schema validateMetadata rejects
Invalid(meta) ==
    /\ meta # <<>>
    /\ \/ meta[1].table = ""
       \/ meta[1].pkey < 0
       \/ meta[1].fkey = meta[1].pkey

\* C5: a data operation on a record whose schema has no table name, no
\* primary key or a foreign key equal to the primary key returns a validation
\* error, does not call the execution collaborator, leaves LastQuery and the
\* schema as they were, and returns the same error as the call before it.
C5_InvalidSchemaRejected ==
    [][\A i \in Insts :
          (Invalid(recs[i].meta) /\ last'.op \in DataOps /\ last'.inst = i)
              => /\ last'.err \in ValidationErrors
                 /\ ~last'.called
                 /\ ~crashed'
                 /\ LastQuery' = LastQuery
                 /\ sent' = sent
                 /\ recs'[i] = recs[i]
                 /\ (last.op \in DataOps /\ last.inst = i => last'.err = last.err)]_vars

C5_Witness ==
    /\ last.op = "SaveNew"
    /\ Invalid(recs[last.inst].meta)
    /\ last.err = ErrNoPkey

\* C6: once a data operation has validated a record's schema, the cached
\* schema of the type is marked validated and so is the schema every
\* attached record of that type is bound to.
C6_ValidationShared ==
    \A i \in Insts :
        (Attached(i) /\ recs[i].meta[1].validated)
            => /\ Has(objects, CacheKey(recs[i].typ))
               /\ objects[CacheKey(recs[i].typ)].validated
               /\ \A j \in Insts :
                     (Attached(j) /\ recs[j].typ = recs[i].typ) => recs[j].meta[1].validated

\* the first token of the statement an operation generates
Verb(op) ==
    CASE op = "CreateTable" -> "CREATE TABLE"
      [] op = "SaveNew" -> "INSERT"
      [] op = "SaveExisting" -> "UPDATE"
      [] op = "Delete" -> "DELETE FROM"
      [] OTHER -> "SELECT * FROM"

\* C7: whenever a data operation or GetMany has handed a statement to the
\* execution collaborator, LastQuery is that statement, the collaborator
\* having failed or not.
C7_LastQueryBeforeExec ==
    (last.op \in DataOps \cup {"GetMany"} /\ last.called /\ ~crashed)
        => /\ LastQuery = sent
           /\ LastQuery # <<>>
           /\ LastQuery[1] = Verb(last.op)

C7_Witness ==
    /\ last.op = "GetMany"
    /\ last.called
    /\ last.err = ErrExec
    /\ LastQuery[1] = "SELECT * FROM"

\* C8: the SELECT of GetExisting ends with LIMIT 1; it returns "no rows
\* returned matching criteria" exactly when the result is empty; after a
\* successful call every column's field holds the value of the first row,
\* and no field ever holds the value of a later row.
C8_GetExistingFirstRow ==
    (last.op = "GetExisting" /\ last.called /\ ~crashed)
        => LET r == recs[last.inst]
               cols == r.meta[1].cols
           IN  /\ EndsWith(LastQuery, <<"LIMIT", "1">>)
               /\ (last.err # ErrExec => (last.rows = 0 <=> last.err = ErrNoRows))
               /\ (last.err = ErrNone =>
                     \A k \in 1..Len(cols) : At(r.fields, cols[k].field) = 1)
               /\ \A k \in 1..Len(r.fields) : r.fields[k] \notin 2..last.rows

C8_Witness ==
    /\ last.op = "GetExisting"
    /\ last.err = ErrNone
    /\ last.rows = 2
    /\ LastQuery = <<"SELECT * FROM", "users", "WHERE", "id = 3", "ORDER BY", "name ASC", "LIMIT", "1">>
    /\ recs[last.inst].fields[2] = 1

Index(q, tok) == CHOOSE k \in 1..Len(q) : q[k] = tok /\ \A m \in 1..(k - 1) : q[m] # tok

\* the column list of an INSERT statement
InsertCols(q) ==
    LET open == Index(q, "(")
        close == Index(q, ")")
    IN  [n \in 1..((close - open) \div 2) |-> q[open + 2 * n - 1]]

\* the columns of the SET clause of an UPDATE statement
SetCols(q) == [n \in 1..((Index(q, "WHERE") - 3) \div 4) |-> q[4 * n]]

RECURSIVE NonPkLabels(_)
NonPkLabels(cols) ==
    IF Len(cols) = 0 THEN <<>>
    ELSE (IF cols[1].primary THEN <<>> ELSE <<cols[1].label>>) \o NonPkLabels(Tail(cols))

\* C9: after SaveNew has executed its INSERT, every created-flagged and every
\* updated-flagged field of the record holds the current time, and the INSERT
\* column list is the non-primary-key columns in schema order.
C9_SaveNewStamps ==
    (last.op = "SaveNew" /\ last.called /\ ~crashed)
        => LET r == recs[last.inst]
               cols == r.meta[1].cols
           IN  /\ \A k \in 1..Len(cols) :
                     (cols[k].created \/ cols[k].updated)
                         => /\ InRange(r.fields, cols[k].field)
                            /\ At(r.fields, cols[k].field) = now
               /\ InsertCols(LastQuery) = NonPkLabels(cols)

\* the columns, other than the primary key and the re-stamped updated
\* column, whose field is not zero
NonZeroCols(r) ==
    LET cols == r.meta[1].cols
    IN  {k \in 1..Len(cols) :
           /\ ~cols[k].primary
           /\ ~cols[k].updated
           /\ InRange(r.fields, cols[k].field)
           /\ At(r.fields, cols[k].field) # 0}

Range(q) == {q[k] : k \in 1..Len(q)}

PrimaryCols(md) == {k \in 1..Len(md.cols) : md.cols[k].primary}

\* C11: the statement Delete executes is DELETE FROM <table> WHERE <label of
\* the primary-key column> = ?, and the value it binds is the record's
\* primary-key field, wherever that field sits in the record.
C11_DeleteByPrimaryKey ==
    (last.op = "Delete" /\ last.called /\ ~crashed)
        => LET r == recs[last.inst]
               md == r.meta[1]
               flds == TypeFields[r.typ]
           IN  \A k \in PrimaryCols(md) :
                  /\ LastQuery = <<"DELETE FROM", md.table, "WHERE", md.cols[k].label, "=", "?">>
                  /\ InRange(flds, md.cols[k].field)
                  /\ DeleteSQL(flds, r.fields, md).vals
                        = <<Interface(At(flds, md.cols[k].field), At(r.fields, md.cols[k].field))>>

\* the SQL type an annotation declares with a type: token, <<>> if it has none
DeclaredType(tag) ==
    LET at == {j \in 2..Len(tag) : Len(tag[j]) > 1 /\ tag[j][1] = "type"}
    IN  IF at = {} THEN <<>> ELSE <<tag[CHOOSE j \in at : \A m \in at : m <= j][2]>>

\* record i is bound to the schema built from its own type
OwnSchema(i) ==
    /\ Attached(i)
    /\ BuildSchema(objects, recs[i].typ).err = ErrNone
    /\ recs[i].meta[1].cols = SchemaFrom(recs[i].typ).cols

\* C12: in the schema of a type, a column whose annotation has no type: token
\* has the driver's SQL type for the field's native type, a column with a
\* type: token has the declared SQL type, and every column records the
\* field's native kind.
C12_TypeInference ==
    \A i \in Insts :
        OwnSchema(i) =>
            \A k \in 1..Len(recs[i].meta[1].cols) :
                LET c == recs[i].meta[1].cols[k]
                    f == At(TypeFields[recs[i].typ], c.field)
                IN  /\ c.sqlType = (IF DeclaredType(f.tag) = <<>> THEN GetDataType(f)
                                    ELSE DeclaredType(f.tag)[1])
                    /\ c.goType = GoTypeOf(f)

\* the labels of the annotated fields, descending depth-first into the
\* struct-typed fields that are not marked json
RECURSIVE FlatLabels(_)
FlatLabels(flds) ==
    IF Len(flds) = 0 THEN <<>>
    ELSE LET f == flds[1]
         IN  (IF f.kind = "struct" /\ f.elem \in DOMAIN StructFields /\ ~MarkedJson(f.tag)
              THEN FlatLabels(StructFields[f.elem])
              ELSE IF f.tag = <<>> THEN <<>> ELSE <<f.tag[1][1]>>)
             \o FlatLabels(Tail(flds))

\* the labels of the annotated fields of the record type itself
RECURSIVE TopLabels(_)
TopLabels(flds) ==
    IF Len(flds) = 0 THEN <<>>
    ELSE (IF flds[1].tag = <<>> THEN <<>> ELSE <<flds[1].tag[1][1]>>) \o TopLabels(Tail(flds))

ColLabels(md) == [k \in 1..Len(md.cols) |-> md.cols[k].label]

RowResult(t, md, sh, j) == Populate(TypeFields[t], NewRec(t, 0).fields, md, RowOf(md, sh, j))

\* the rows of a result that fail to materialize
FailingRows(t, md, shapes) ==
    {j \in 1..Len(shapes) : RowResult(t, md, shapes[j], j).err # ErrNone}

\* the number of rows before the first failing row
GoodPrefix(t, md, shapes) ==
    IF FailingRows(t, md, shapes) = {} THEN Len(shapes)
    ELSE (CHOOSE j \in FailingRows(t, md, shapes) :
             \A m \in FailingRows(t, md, shapes) : j <= m) - 1

\* C14: after a GetMany whose query succeeded, the destination slice holds
\* the rows of the result before the first row that failed to materialize, in
\* result order, and nothing else (all the rows when none fails).
C14_PartialResults ==
    (last.op = "GetMany" /\ last.called /\ ~crashed /\ last.err # ErrExec)
        => LET md == objects[CacheKey(last.typ)]
               m == GoodPrefix(last.typ, md, last.shapes)
           IN  /\ Len(slc) = m
               /\ \A k \in 1..m : slc[k] = RowResult(last.typ, md, last.shapes[k], k).fields

C14_Witness ==
    /\ last.op = "GetMany"
    /\ last.typ = "User"
    /\ ~crashed
    /\ last.shapes = <<"good", "badtime">>
    /\ Len(slc) = 1
    /\ slc[1] = <<1, 1, 1, 1, 0>>

\* the targets SelectFrom scans the columns of a struct type into
Pointers(t) == scanStruct(t, ZeroOf(t), TRUE, FALSE).data

\* C15: in every struct SelectFrom returns, the second and later ones
\* included, a string field whose column is NULL in that struct's row is
\* unset, and so is a field whose JSON column is NULL in that row.
C15_NullLeavesUnset ==
    (last.op = "SelectFrom" /\ last.called) =>
        \A k \in 1..Len(slc) : \A c \in 1..Len(Pointers(last.typ)) :
            LET d == Pointers(last.typ)[c]
            IN  (d.kind \in {"nullstring", "json"} /\ IsNull(d, last.shapes[k]))
                    => GetPath(slc[k], d.path) = 0

\* the labels of the annotated fields of v that are not zero, nested structs
\* included, in declaration order
RECURSIVE SetLabels(_, _, _)
SetLabels(tname, v, i) ==
    IF i > Len(StructTypes[tname]) THEN <<>>
    ELSE LET f == StructTypes[tname][i]
             own == IF f.skip THEN <<>>
                    ELSE IF f.kind = "struct" /\ f.json = "" THEN SetLabels(f.elem, v[i], 1)
                    ELSE IF f.json # "" /\ v[i] # 0 THEN <<f.json>>
                    ELSE IF f.db # "" /\ v[i] # 0 THEN <<f.db>>
                    ELSE <<>>
         IN  own \o SetLabels(tname, v, i + 1)

\* C16: with Params.SkipEmpty, InsertInto and Update generate a statement
\* whenever some annotated field, at any nesting depth, is not zero, and the
\* statement names exactly the columns of the annotated fields that are not
\* zero.
C16_SkipEmptyIgnoresZero ==
    (/\ last.op \in {"InsertInto", "Update"}
     /\ last.arg[2].SkipEmpty
     /\ OldOptions(last.op, last.arg[2]).err = ErrNone) =>
        LET want == SetLabels(last.typ, last.arg[1], 1)
            p == last.arg[2]
        IN  /\ want # <<>> => (last.called /\ ~crashed)
            /\ last.called =>
                  LastQuery = IF last.op = "Update"
                              THEN OldUpdateSQL("wrestlers", want, OldOptions("Update", p).text)
                              ELSE InsertIntoSQL("wrestlers", want, p)

\* the columns of schema md flagged by Is
Flagged(md, Is(_)) == {k \in 1..Len(md.cols) : Is(md.cols[k])}

IsPrimary(c) == c.primary
IsCreated(c) == c.created
IsUpdated(c) == c.updated

\* C17: every schema in the cache has at most one primary-key column, at
\* most one created column and at most one updated column.
C17_OneOfEachRole ==
    \A t \in DOMAIN objects :
        /\ Cardinality(Flagged(objects[t], IsPrimary)) <= 1
        /\ Cardinality(Flagged(objects[t], IsCreated)) <= 1
        /\ Cardinality(Flagged(objects[t], IsUpdated)) <= 1

\* the struct-typed columns of schema md that are not marked json
StructCols(md) == {k \in 1..Len(md.cols) : md.cols[k].goType = GoStruct /\ ~md.cols[k].json}

\* C18: for a schema with a struct-typed column not marked json, populate
\* returns the unsupported-struct error and reports zero rows for every row
\* that scans, and GetMany appends none of them.
C18_StructColumnRejected ==
    (/\ last.op = "GetMany" /\ last.called /\ ~crashed /\ last.err # ErrExec
     /\ StructCols(objects[CacheKey(last.typ)]) # {}) =>
        /\ \A j \in 1..Len(last.shapes) :
              last.shapes[j] = "good" =>
                  LET r == RowResult(last.typ, objects[CacheKey(last.typ)], "good", j)
                  IN  r.err = ErrStruct /\ r.n = 0
        /\ (Len(last.shapes) > 0 /\ last.shapes[1] = "good") => slc = <<>>

\* C19: when the first row of a result carries, for its string, integer,
\* float and boolean columns, raw values of another kind, the call returns
\* (the process does not abort) and populate gives an error and zero rows.
C19_MismatchIsError ==
    (/\ last.op = "GetMany" /\ last.called /\ last.err # ErrExec
     /\ last.shapes # <<>> /\ last.shapes[1] = "mismatch") =>
        /\ ~crashed
        /\ LET r == RowResult(last.typ, objects[CacheKey(last.typ)], "mismatch", 1)
           IN  ~r.panic /\ r.err # ErrNone /\ r.n = 0

\* C20: an attach whose schema building fails leaves the cache as it was and
\* the record without a schema; a data operation on a record without a schema
\* returns the not-initialized error, executes no statement, leaves LastQuery
\* alone and leaves the record without a schema.
C20_FailedAttachStoresNothing ==
    [][\A i \in Insts :
          /\ (last'.op = "Attach" /\ last'.inst = i /\ last'.init # ErrNone
              /\ recs[i].meta = <<>>)
                => (objects' = objects /\ recs'[i].meta = <<>>)
          /\ (last'.op \in DataOps /\ last'.inst = i /\ recs[i].meta = <<>>
              /\ Len(recs') = Len(recs))
                => /\ last'.err = ErrNotInit
                   /\ ~last'.called
                   /\ ~crashed'
                   /\ LastQuery' = LastQuery
                   /\ sent' = sent
                   /\ objects' = objects
                   /\ recs'[i].meta = <<>>]_vars

\* a failed attach has happened: nothing cached, the record without schema
C20_Witness ==
    /\ last.op = "Attach"
    /\ last.init \in BuildErrors
    /\ recs[last.inst].typ \in FailTypes
    /\ recs[last.inst].meta = <<>>
    /\ DOMAIN objects = {}

\* the number of "?" placeholders of a statement
RECURSIVE Placeholders(_)
Placeholders(q) ==
    IF q = <<>> THEN 0 ELSE (IF Head(q) = "?" THEN 1 ELSE 0) + Placeholders(Tail(q))

\* the parameter list the last SaveNew or SaveExisting passed with LastQuery
\* (stamping again at the same clock value changes nothing; the clock does
\* not advance in these runs)
LastVals ==
    LET r == recs[last.inst]
    IN  IF last.op = "SaveNew"
        THEN InsertIgnore(TypeFields[r.typ], r.fields, r.meta[1], FALSE, now).vals
        ELSE UpdateSQL(TypeFields[r.typ], r.fields, r.meta[1], now).vals

\* C21: a SaveNew or SaveExisting on a record with a validated schema, one
\* whose only column is the primary key included, generates a statement with
\* as many "?" placeholders as values in its parameter list: one per
\* non-primary-key column, and for UPDATE one more for the primary key.
C21_PlaceholdersMatchValues ==
    (/\ last.op \in {"SaveNew", "SaveExisting"}
     /\ last.err \notin ValidationErrors \cup {ErrNotInit}) =>
        /\ ~crashed
        /\ last.called
        /\ Placeholders(LastQuery) = Len(LastVals)
        /\ Len(LastVals) = Len(NonPkLabels(recs[last.inst].meta[1].cols))
                           + (IF last.op = "SaveExisting" THEN 1 ELSE 0)

\* the values a statement binds when each non-primary-key column, in schema
\* order, reads the record field its descriptor was built from (col.field)
RECURSIVE OwnFieldVals(_, _, _, _, _)
OwnFieldVals(op, flds, fields, cols, k) ==
    IF k > Len(cols) THEN <<>>
    ELSE LET col == cols[k]
             f == At(flds, col.field)
             v == At(fields, col.field)
             own == IF op = "SaveNew" /\ col.json THEN Text("string", v, JsonText(f))
                    ELSE IF col.goType = GoTime THEN Val("int64", v)
                    ELSE Interface(f, v)
         IN  (IF col.primary THEN <<>> ELSE <<own>>)
             \o OwnFieldVals(op, flds, fields, cols, k + 1)

\* C22: the k-th column's bound value is read from, its timestamp is written
\* to, and its decoded JSON value is written to the record field the k-th
\* column descriptor was built from, also when an unannotated field precedes
\* the annotated ones.
C22_ColumnsMatchFields ==
    LET r == recs[last.inst]
        flds == TypeFields[r.typ]
        cols == r.meta[1].cols
    IN  /\ (last.op \in {"SaveNew", "SaveExisting"} /\ last.called /\ ~crashed) =>
              /\ SubSeq(LastVals, 1, Len(NonPkLabels(cols)))
                    = OwnFieldVals(last.op, flds, r.fields, cols, 1)
              /\ \A k \in 1..Len(cols) :
                    (~cols[k].primary
                     /\ (cols[k].updated \/ (cols[k].created /\ last.op = "SaveNew")))
                        => At(r.fields, cols[k].field) = now
              /\ last.op = "SaveExisting" =>
                    \A k \in PrimaryCols(r.meta[1]) :
                        LastVals[Len(LastVals)]
                            = Interface(At(flds, cols[k].field), At(r.fields, cols[k].field))
        /\ (last.op = "Refresh" /\ last.called /\ ~crashed /\ last.err = ErrNone
            /\ last.rows > 0) =>
              \A k \in 1..Len(cols) :
                  cols[k].json => At(r.fields, cols[k].field) = 1
====
